---- MODULE Spec2Model ----
(***************************************************************************)
(* yield-calculation: trailing-twelve-month dividend yield.                *)
(*                                                                         *)
(*   yield_calculation_v11.py  load_config, calculate_annual_yield, main   *)
(*   g_yield_v6.py             the earlier row-by-row script               *)
(*                                                                         *)
(* Floating-point numbers are modelled as exact fractions <<n, d>> in      *)
(* lowest terms; <<0, 0>> is not-a-number and <<1, 0>>, <<-1, 0>> are the  *)
(* infinities, so that a division by zero has the value the float division *)
(* has.  Strings are sequences of one-character strings.  The columns      *)
(* '番号', '配当/株', '前月終値', '＄:利回り', '＄:税後利回り' are written   *)
(* "no", "div", "price", "yield", "after".                                 *)
(***************************************************************************)
EXTENDS Integers, Sequences, FiniteSets, TLC

VARIABLES pc, artifact, config, log, table, df, ret, out, raised

vars == <<pc, artifact, config, log, table, df, ret, out, raised>>

-----------------------------------------------------------------------------
(* Numbers *)

Abs(x) == IF x < 0 THEN -x ELSE x

Sgn(x) == IF x < 0 THEN -1 ELSE IF x > 0 THEN 1 ELSE 0

RECURSIVE Gcd(_, _)
Gcd(a, b) == IF b = 0 THEN a ELSE Gcd(b, a % b)

\* the fraction n/d in lowest terms with a positive denominator; n/0 is an
\* infinity or, for n = 0, not-a-number
Frac(n, d) ==
    IF d = 0 THEN <<Sgn(n), 0>>
    ELSE LET g == Gcd(Abs(n), Abs(d))
         IN  <<Sgn(d) * (n \div g), Abs(d) \div g>>

NaN == <<0, 0>>

Num(k) == <<k, 1>>

IsNaN(x) == x = NaN

Add(x, y) == Frac(x[1] * y[2] + y[1] * x[2], x[2] * y[2])

Mul(x, y) == Frac(x[1] * y[1], x[2] * y[2])

Div(x, y) == Frac(x[1] * y[2], x[2] * y[1])

-----------------------------------------------------------------------------
(* Strings, the regular expressions of Series.replace(..., regex=True) and *)
(* pd.to_numeric(..., errors='coerce')                                     *)

Digits == {"0", "1", "2", "3", "4", "5", "6", "7", "8", "9"}

DigitVal(c) ==
    CASE c = "0" -> 0 [] c = "1" -> 1 [] c = "2" -> 2 [] c = "3" -> 3
      [] c = "4" -> 4 [] c = "5" -> 5 [] c = "6" -> 6 [] c = "7" -> 7
      [] c = "8" -> 8 [] c = "9" -> 9

RECURSIVE Concat(_)
Concat(ss) == IF ss = <<>> THEN <<>> ELSE Head(ss) \o Concat(Tail(ss))

\* re.compile(key) for the one-atom patterns the model draws keys from: "$" is
\* the end-of-string anchor, "." any character, "\$" an escaped dollar sign,
\* any other single character itself
Compile(key) ==
    IF key = <<"$">> THEN [kind |-> "end", ch |-> ""]
    ELSE IF key = <<".">> THEN [kind |-> "any", ch |-> ""]
    ELSE IF Len(key) = 2 /\ key[1] = "\\" THEN [kind |-> "lit", ch |-> key[2]]
    ELSE [kind |-> "lit", ch |-> key[1]]

Matches(rx, c) == rx.kind = "any" \/ (rx.kind = "lit" /\ rx.ch = c)

\* re.search(rx, s) is not None
Search(rx, s) == rx.kind = "end" \/ \E i \in 1..Len(s) : Matches(rx, s[i])

\* re.sub(rx, repl, s)
ReSub(rx, repl, s) ==
    IF rx.kind = "end" THEN s \o repl
    ELSE Concat([i \in 1..Len(s) |-> IF Matches(rx, s[i]) THEN repl ELSE <<s[i]>>])

\* Series.replace(symbols, regex=True) on one cell: an empty cell is NaN, not
\* a string, and is left alone; each key is applied in turn to the cells whose
\* original text it matches
RECURSIVE ReplaceFrom(_, _, _, _)
ReplaceFrom(symbols, k, orig, cur) ==
    IF k > Len(symbols) THEN cur
    ELSE LET rx == Compile(symbols[k][1])
         IN  ReplaceFrom(symbols, k + 1, orig,
                         IF Search(rx, orig) THEN ReSub(rx, symbols[k][2], cur) ELSE cur)

replace(symbols, cell) ==
    IF cell = <<>> THEN cell ELSE ReplaceFrom(symbols, 1, cell, cell)

RECURSIVE DigitsVal(_)
DigitsVal(s) ==
    IF s = <<>> THEN 0 ELSE 10 * DigitsVal(SubSeq(s, 1, Len(s) - 1)) + DigitVal(s[Len(s)])

RECURSIVE Pow10(_)
Pow10(k) == IF k = 0 THEN 1 ELSE 10 * Pow10(k - 1)

\* pd.to_numeric(cell, errors='coerce') for unsigned decimal text: digits with
\* at most one point and at least one digit; anything else is NaN
to_numeric(cell) ==
    LET dots == {i \in 1..Len(cell) : cell[i] = "."}
        digs == {i \in 1..Len(cell) : cell[i] \in Digits}
    IN  IF digs = {} \/ Cardinality(dots) > 1 \/ Cardinality(dots) + Cardinality(digs) # Len(cell)
        THEN NaN
        ELSE IF dots = {} THEN Num(DigitsVal(cell))
        ELSE LET p == CHOOSE i \in dots : TRUE
             IN  Frac(DigitsVal(SubSeq(cell, 1, p - 1) \o SubSeq(cell, p + 1, Len(cell))),
                      Pow10(Len(cell) - p))

-----------------------------------------------------------------------------
(* load_config *)

Yen == "Y"                      \* the yen sign

KeyDollar == <<"$">>            \* the key "$"

KeyEscDollar == <<"\\", "$">>   \* the key "\$"

KeyYen == <<Yen>>

default_config ==
    [currency_symbols   |-> <<<<KeyDollar, <<>>>>, <<KeyYen, <<>>>>>>,
     columns_to_convert |-> <<"div", "price">>,
     tax_rate           |-> Frac(9 * 79685, 10 * 100000)]

DefaultKeys == <<"currency_symbols", "columns_to_convert", "tax_rate">>

\* for key, value in user_config.items(): default_config[key] = value
Merge(defaults, user) ==
    [k \in DOMAIN defaults \cup DOMAIN user |->
        IF k \in DOMAIN user THEN user[k] ELSE defaults[k]]

\* one warning for each default key the artifact lacks, in the order of the keys
RECURSIVE KeyWarnings(_, _)
KeyWarnings(user, k) ==
    IF k > Len(DefaultKeys) THEN <<>>
    ELSE (IF DefaultKeys[k] \in DOMAIN user THEN <<>>
          ELSE <<[level |-> "WARNING", what |-> "missing_key", arg |-> <<DefaultKeys[k]>>]>>)
         \o KeyWarnings(user, k + 1)

\* the artifact is absent (open raises FileNotFoundError), is not JSON
\* (json.load raises JSONDecodeError), is JSON but no object (a list, a number,
\* a string, null: .items() raises AttributeError, which nothing catches), or
\* is a JSON object
load_config(a) ==
    CASE a.kind = "missing" ->
            [raised |-> "", config |-> default_config,
             log |-> <<[level |-> "WARNING", what |-> "not_found", arg |-> <<>>]>>]
      [] a.kind = "unparsable" ->
            [raised |-> "", config |-> default_config,
             log |-> <<[level |-> "ERROR", what |-> "bad_format", arg |-> <<>>]>>]
      [] a.kind = "nonobject" ->
            [raised |-> "AttributeError", config |-> default_config, log |-> <<>>]
      [] a.kind = "object" ->
            [raised |-> "", config |-> Merge(default_config, a.obj),
             log |-> KeyWarnings(a.obj, 1)]

-----------------------------------------------------------------------------
(* calculate_annual_yield (yield_calculation_v11) *)

Window == 12

MinNo == 12

Percent == 100

\* df.sort_values('番号').reset_index(drop=True), for distinct numbers
sort_values(rows) ==
    [k \in 1..Len(rows) |->
        rows[CHOOSE j \in 1..Len(rows) :
                Cardinality({m \in 1..Len(rows) : rows[m].no < rows[j].no}) = k - 1]]

\* the sum of the numbers among xs[lo..hi], not-a-number cells skipped
RECURSIVE SumSkipNa(_, _, _)
SumSkipNa(xs, lo, hi) ==
    IF lo > hi THEN Num(0)
    ELSE Add(SumSkipNa(xs, lo, hi - 1), IF IsNaN(xs[hi]) THEN Num(0) ELSE xs[hi])

\* Series.rolling(window, min_periods).sum(): at each position the sum of the
\* numbers among the last `window` cells, and NaN where fewer than
\* min_periods of them are numbers
rolling_sum(xs, window, min_periods) ==
    [i \in 1..Len(xs) |->
        LET lo == IF i - window + 1 < 1 THEN 1 ELSE i - window + 1
            obs == Cardinality({j \in lo..i : ~IsNaN(xs[j])})
        IN  IF obs < min_periods THEN NaN ELSE SumSkipNa(xs, lo, i)]

\* annual_dividend with min_periods = 1: a sum over the rows there are
annual_dividend_partial(sorted) ==
    rolling_sum([i \in 1..Len(sorted) |-> sorted[i].div], Window, 1)

\* annual_dividend over a window one row short
annual_dividend_short(sorted) ==
    rolling_sum([i \in 1..Len(sorted) |-> sorted[i].div], Window - 1, Window - 1)

\* df['配当/株'].rolling(window=12).sum(): min_periods defaults to the window
annual_dividend(sorted) ==
    rolling_sum([i \in 1..Len(sorted) |-> sorted[i].div], Window, Window)

\* df['前月終値'].shift(1)
previous_month_price(sorted) ==
    [i \in 1..Len(sorted) |-> IF i = 1 THEN NaN ELSE sorted[i - 1].price]

\* the returned Series, indexed by position in the sorted table: the quotient,
\* then NaN where the number is below 12, then NaN where the shifted price is
\* NaN or 0
calculate_annual_yield(rows) ==
    LET sorted == sort_values(rows)
        annual == annual_dividend(sorted)
        prev   == previous_month_price(sorted)
        raw    == [i \in 1..Len(sorted) |-> Mul(Div(annual[i], prev[i]), Num(Percent))]
        early  == [i \in 1..Len(sorted) |-> IF sorted[i].no < MinNo THEN NaN ELSE raw[i]]
    IN  [i \in 1..Len(sorted) |->
            IF IsNaN(prev[i]) \/ prev[i] = Num(0) THEN NaN ELSE early[i]]

-----------------------------------------------------------------------------
(* calculate_annual_yield (g_yield_v6): row by row over the table as it is *)

V6MinNo == 12

V6Back == 11

V6Percent == 100

\* V6Row with the window starting one row late
V6RowLate(rows, i) ==
    LET start  == IF i - V6Back + 1 < 1 THEN 1 ELSE i - V6Back + 1
        annual == SumSkipNa([j \in 1..Len(rows) |-> rows[j].div], start, i)
        prev   == rows[i - 1].price
    IN  IF IsNaN(prev) \/ prev = Num(0) THEN NaN
        ELSE Mul(Div(annual, prev), Num(V6Percent))

\* annual_dividend and the yield of row i (1-based; the code's i is i - 1)
V6Row(rows, i) ==
    LET start  == IF i - V6Back < 1 THEN 1 ELSE i - V6Back
        annual == SumSkipNa([j \in 1..Len(rows) |-> rows[j].div], start, i)
        prev   == rows[i - 1].price
    IN  IF IsNaN(prev) \/ prev = Num(0) THEN NaN
        ELSE Mul(Div(annual, prev), Num(V6Percent))

\* df.loc[i - 1, '前月終値'] at the first row asks for the label -1, which the
\* index 0..n-1 does not hold: KeyError, and the call returns nothing
calculate_annual_yield_v6(rows) ==
    IF Len(rows) >= 1 /\ ~(rows[1].no < V6MinNo)
    THEN [raised |-> "KeyError", yields |-> <<>>]
    ELSE [raised |-> "",
          yields |-> [i \in 1..Len(rows) |->
                         IF rows[i].no < V6MinNo THEN NaN ELSE V6Row(rows, i)]]

-----------------------------------------------------------------------------
(* Input tables *)

MaxLen == 13        \* rows of a table

GapSize == 11       \* numbers skipped at a gap

MissLen == 2        \* rows of a table that lacks a column

AllCols == {"no", "div", "price"}

BaseDiv == <<"1">>

BasePrice == <<"1", "0", "0">>

DivCells == {<<>>, <<"$", "1", ".", "5", "0">>}

PriceCells == {<<>>, <<"0">>, <<Yen, "5", "0">>}

\* rows numbered 1..n, the numbers after row g raised by GapSize (g = n: no
\* gap; g = 0: the table starts at 1 + GapSize)
BaseRows(n, g) ==
    [k \in 1..n |-> [no |-> k + (IF k > g THEN GapSize ELSE 0),
                     div |-> BaseDiv, price |-> BasePrice]]

Reverse(rows) == [k \in 1..Len(rows) |-> rows[Len(rows) + 1 - k]]

\* the tables with all three columns: at most one cell differs from the base
\* cells, and the rows come in ascending or in descending order of number
AscRows ==
    UNION {{BaseRows(n, g) : g \in 0..n} : n \in 0..MaxLen}
    \cup UNION {{[BaseRows(n, g) EXCEPT ![p].div = c] :
                    g \in 0..n, p \in 1..n, c \in DivCells} : n \in 1..MaxLen}
    \cup UNION {{[BaseRows(n, g) EXCEPT ![p].price = c] :
                    g \in 0..n, p \in 1..n, c \in PriceCells} : n \in 1..MaxLen}

FullTables ==
    {[cols |-> AllCols, rows |-> r] : r \in AscRows}
    \cup {[cols |-> AllCols, rows |-> Reverse(r)] : r \in AscRows}

Restrict(row, cols) == [c \in cols |-> row[c]]

\* the tables that lack a column (a file without any column is no table:
\* read_csv raises EmptyDataError)
PartTables ==
    {[cols |-> cs, rows |-> [k \in 1..n |-> Restrict(BaseRows(n, n)[k], cs)]] :
        cs \in (SUBSET AllCols) \ {AllCols, {}}, n \in 0..MissLen}

Tables == FullTables \cup PartTables

NoTable == [cols |-> {}, rows |-> <<>>]

-----------------------------------------------------------------------------
(* Configuration artifacts *)

Half == Frac(1, 2)

EscSymbols == <<<<KeyEscDollar, <<>>>>, <<KeyYen, <<>>>>>>

MoreColumns == <<"div", "price", "close">>

Artifact(kind, value, obj) == [kind |-> kind, value |-> value, obj |-> obj]

NoArtifact == Artifact("none", "", <<>>)

MissingArtifact == Artifact("missing", "", <<>>)

ListArtifact == Artifact("nonobject", "list", <<>>)

\* the JSON objects: each recognized key absent or present with one of a few
\* values, and an unrecognized key absent or present
SymbolValues == {EscSymbols, <<<<KeyYen, <<>>>>>>, <<>>}

ColumnValues == {MoreColumns, <<"div">>, <<>>}

TaxValues == {Half, Num(1), Num(0)}

Objects ==
    {[k \in ks |->
        CASE k = "currency_symbols" -> sy
          [] k = "columns_to_convert" -> co
          [] k = "tax_rate" -> tx
          [] k = "comment" -> <<"x">>] :
        ks \in SUBSET {"currency_symbols", "columns_to_convert", "tax_rate", "comment"},
        sy \in SymbolValues, co \in ColumnValues, tx \in TaxValues}

Artifacts ==
    {MissingArtifact, Artifact("unparsable", "", <<>>)}
    \cup {Artifact("nonobject", v, <<>>) : v \in {"list", "null", "number", "string"}}
    \cup {Artifact("object", "", o) : o \in Objects}

\* the artifacts main is run with
MainArtifacts ==
    {MissingArtifact, ListArtifact,
     Artifact("object", "", [currency_symbols |-> EscSymbols, tax_rate |-> Half]),
     Artifact("object", "", [columns_to_convert |-> MoreColumns])}

-----------------------------------------------------------------------------
(* main (yield_calculation_v11) *)

Init ==
    /\ pc = "start"
    /\ artifact = NoArtifact
    /\ config = <<>>
    /\ log = <<>>
    /\ table = NoTable
    /\ df = NoTable
    /\ ret = <<>>
    /\ out = <<>>
    /\ raised = ""

\* config = load_config()
LoadConfigFrom(arts) ==
    /\ pc = "start"
    /\ \E a \in arts :
        LET r == load_config(a)
        IN  /\ artifact' = a
            /\ raised' = r.raised
            /\ pc' = IF r.raised = "" THEN "configured" ELSE "raised"
            /\ config' = IF r.raised = "" THEN r.config ELSE config
            /\ log' = log \o r.log
    /\ UNCHANGED <<table, df, ret, out>>

LoadConfig == LoadConfigFrom(MainArtifacts)

\* df = pd.read_csv(input_file)
ReadCsv ==
    /\ pc = "configured"
    /\ \E t \in Tables :
        /\ table' = t
        /\ df' = t
    /\ pc' = "read"
    /\ UNCHANGED <<artifact, config, log, ret, out, raised>>

\* no file chosen, the overwrite refused, or read_csv raising
\* FileNotFoundError, EmptyDataError or ParserError: logged, and main returns
ReadCsvFails ==
    /\ pc = "configured"
    /\ log' = Append(log, [level |-> "ERROR", what |-> "no_input", arg |-> <<>>])
    /\ pc' = "returned"
    /\ UNCHANGED <<artifact, config, table, df, ret, out, raised>>

missing_columns(cfg, t) ==
    SelectSeq(cfg.columns_to_convert, LAMBDA col : col \notin t.cols)

CheckColumns ==
    /\ pc = "read"
    /\ LET missing == missing_columns(config, df)
       IN  IF missing # <<>>
           THEN /\ log' = Append(log, [level |-> "ERROR", what |-> "missing_columns",
                                       arg |-> missing])
                /\ pc' = "returned"
           ELSE /\ log' = log
                /\ pc' = "checked"
    /\ UNCHANGED <<artifact, config, table, df, ret, out, raised>>

\* df[column] = pd.to_numeric(df[column].replace(symbols, regex=True), errors='coerce')
normalize_cell(symbols, cell) == to_numeric(replace(symbols, cell))

normalize(symbols, columns, t) ==
    [cols |-> t.cols,
     rows |-> [k \in 1..Len(t.rows) |->
                 [c \in t.cols |->
                     IF \E j \in 1..Len(columns) : columns[j] = c
                     THEN normalize_cell(symbols, t.rows[k][c])
                     ELSE t.rows[k][c]]]]

Normalize ==
    /\ pc = "checked"
    /\ df' = normalize(config.currency_symbols, config.columns_to_convert, df)
    /\ pc' = "normalized"
    /\ UNCHANGED <<artifact, config, log, table, ret, out, raised>>

\* after_tax with the built-in rate whatever the configuration
after_tax_builtin(y, rate) == Mul(y, default_config.tax_rate)

after_tax(y, rate) == Mul(y, rate)

\* df['＄:利回り'] = <Series>: the Series and the table both have the index
\* 0..n-1, so that row k of the table takes the k-th value of the Series
set_yield(rows, series, rate) ==
    [k \in 1..Len(rows) |->
        [no |-> rows[k].no, div |-> rows[k].div, price |-> rows[k].price,
         yield |-> series[k], after |-> after_tax(series[k], rate)]]

\* the yield, the after-tax yield and df.to_csv; sort_values('番号') raises
\* KeyError on a table without that column
ComputeAndSave ==
    /\ pc = "normalized"
    /\ IF AllCols \subseteq df.cols
       THEN /\ ret' = calculate_annual_yield(df.rows)
            /\ out' = set_yield(df.rows, ret', config.tax_rate)
            /\ raised' = raised
            /\ pc' = "saved"
       ELSE /\ raised' = "KeyError"
            /\ pc' = "raised"
            /\ UNCHANGED <<ret, out>>
    /\ UNCHANGED <<artifact, config, log, table, df>>

Next ==
    \/ LoadConfig
    \/ ReadCsv
    \/ ReadCsvFails
    \/ CheckColumns
    \/ Normalize
    \/ ComputeAndSave

Spec == Init /\ [][Next]_vars

-----------------------------------------------------------------------------
(* load_config alone, over every artifact *)

LoadConfigAny == LoadConfigFrom(Artifacts)

SpecConfig == Init /\ [][LoadConfigAny]_vars

-----------------------------------------------------------------------------
(* The script g_yield_v6 *)

V6Symbols == EscSymbols     \* {'\$': '', '¥': ''}

V6Columns == <<"div", "price">>

V6Init ==
    /\ pc = "v6_start"
    /\ artifact = NoArtifact
    /\ config = <<>>
    /\ log = <<>>
    /\ table = NoTable
    /\ df = NoTable
    /\ ret = <<>>
    /\ out = <<>>
    /\ raised = ""

V6ReadCsv ==
    /\ pc = "v6_start"
    /\ \E t \in FullTables :
        /\ table' = t
        /\ df' = t
    /\ pc' = "v6_read"
    /\ UNCHANGED <<artifact, config, log, ret, out, raised>>

V6Normalize ==
    /\ pc = "v6_read"
    /\ df' = normalize(V6Symbols, V6Columns, df)
    /\ pc' = "v6_normalized"
    /\ UNCHANGED <<artifact, config, log, table, ret, out, raised>>

\* df['＄:税後利回り'] = df['＄:利回り'] * 0.9 * 0.79685
v6_after_tax(y) == Mul(Mul(y, Frac(9, 10)), Frac(79685, 100000))

V6Calculate ==
    /\ pc = "v6_normalized"
    /\ LET r == calculate_annual_yield_v6(df.rows)
       IN  IF r.raised = ""
           THEN /\ ret' = r.yields
                /\ out' = [k \in 1..Len(df.rows) |->
                             [no |-> df.rows[k].no, div |-> df.rows[k].div,
                              price |-> df.rows[k].price, yield |-> r.yields[k],
                              after |-> v6_after_tax(r.yields[k])]]
                /\ raised' = raised
                /\ pc' = "v6_saved"
           ELSE /\ raised' = r.raised
                /\ pc' = "v6_raised"
                /\ UNCHANGED <<ret, out>>
    /\ UNCHANGED <<artifact, config, log, table, df>>

V6Next ==
    \/ V6ReadCsv
    \/ V6Normalize
    \/ V6Calculate

SpecV6 == V6Init /\ [][V6Next]_vars

-----------------------------------------------------------------------------
(* Properties *)

Range(f) == {f[i] : i \in DOMAIN f}

Max(a, b) == IF a > b THEN a ELSE b

\* the table of the run in ascending order, as an explicit sequence
Sorted == sort_values(df.rows) \o <<>>

IsAscending(rows) == \A i \in 1..(Len(rows) - 1) : rows[i].no < rows[i + 1].no

\* the closing price of the row before row i of s is a number other than 0
ValidPrior(s, i) == i > 1 /\ ~IsNaN(s[i - 1].price) /\ s[i - 1].price # Num(0)

\* the plain sum of xs[lo..hi]
RECURSIVE PlainSum(_, _, _)
PlainSum(xs, lo, hi) == IF lo > hi THEN Num(0) ELSE Add(PlainSum(xs, lo, hi - 1), xs[hi])

\* (sum of the dividends of rows max(1, i-11)..i) / (price of row i-1) * 100
TrailingYield(s, i) ==
    Mul(Div(PlainSum([j \in 1..Len(s) |-> s[j].div], Max(1, i - 11), i), s[i - 1].price),
        Num(100))

FullWindow(s, i) == i >= 12 /\ \A j \in (i - 11)..i : ~IsNaN(s[j].div)

\* C1 as stated: in the Series calculate_annual_yield returns, every position i
\* whose record has number >= 12 and a valid prior closing price holds a
\* defined yield, the sum of the dividends of positions max(first, i-11)..i
\* over the prior closing price, times 100.  (Stated for the positions whose
\* dividends in that range are all numbers, where the sum is a number.)
C1_YieldAtEveryLateRecord ==
    pc = "saved" =>
        LET s == Sorted
        IN  \A i \in 1..Len(ret) :
                (/\ s[i].no >= 12
                 /\ ValidPrior(s, i)
                 /\ \A j \in Max(1, i - 11)..i : ~IsNaN(s[j].div))
                    => ~IsNaN(ret[i]) /\ ret[i] = TrailingYield(s, i)

\* C1 amended: at such a position the yield is that quotient when twelve rows
\* end at i and all twelve dividends are numbers, and is undefined otherwise
\* (fewer than twelve rows up to i, or a not-a-number dividend among them).
C1_YieldOverFullWindow ==
    pc = "saved" =>
        LET s == Sorted
        IN  \A i \in 1..Len(ret) :
                (s[i].no >= 12 /\ ValidPrior(s, i))
                    => IF FullWindow(s, i)
                       THEN ~IsNaN(ret[i]) /\ ret[i] = TrailingYield(s, i)
                       ELSE IsNaN(ret[i])

C1_Witness ==
    /\ pc = "saved"
    /\ LET s == Sorted
       IN  \E i \in 1..Len(ret) :
               /\ s[i].no >= 12
               /\ ValidPrior(s, i)
               /\ FullWindow(s, i)
               /\ ~IsNaN(ret[i])

\* C2 as stated: in the output table every record with number < 12 has an
\* undefined yield and an undefined after-tax yield.
C2_EarlyRecordsUndefined ==
    pc = "saved" =>
        \A k \in 1..Len(out) :
            out[k].no < 12 => IsNaN(out[k].yield) /\ IsNaN(out[k].after)

\* the table of the scenario: records 1..13, dividend 1 and price 100 each
IsScenario ==
    /\ Len(table.rows) = 13
    /\ Range(table.rows) = {[no |-> k, div |-> <<"1">>, price |-> <<"1", "0", "0">>] : k \in 1..13}

\* C3 as stated: for that table, record 13 has annual dividend 12 and yield 12
\* and each of records 1..12 has an undefined yield.
C3_ScenarioAsStated ==
    (pc = "saved" /\ IsScenario) =>
        /\ annual_dividend(Sorted)[13] = Num(12)
        /\ ret[13] = Num(12)
        /\ \A k \in 1..12 : IsNaN(ret[k])

\* C3 amended: for that table, record 13 has annual dividend 12 and yield 12,
\* record 12 has yield 12 too, and each of records 1..11 has an undefined
\* yield; the row-by-row function returns the same.
C3_Scenario ==
    (pc = "saved" /\ IsScenario) =>
        LET s == Sorted
        IN  /\ annual_dividend(s)[13] = Num(12)
            /\ ret[13] = Num(12)
            /\ ret[12] = Num(12)
            /\ \A k \in 1..11 : IsNaN(ret[k])
            /\ calculate_annual_yield_v6(s) = [raised |-> "", yields |-> ret]

C3_Witness == pc = "saved" /\ IsScenario /\ ret[12] = Num(12) /\ IsNaN(ret[11])

\* C4 as stated: the row-by-row call raises nothing, and the yield is
\* undefined wherever the prior closing price is absent (first row),
\* not-a-number or 0.
C4_NoErrorOnBadPrior ==
    /\ pc # "v6_raised"
    /\ pc = "v6_saved" =>
        \A i \in 1..Len(ret) : ~ValidPrior(df.rows, i) => IsNaN(ret[i])

\* C5 as stated: the output table, sorted by number, is the output table of
\* the run on the same rows given in ascending order.
C5_OrderIndependent ==
    pc = "saved" =>
        LET asc == Sorted
        IN  sort_values(out) = set_yield(asc, calculate_annual_yield(asc), config.tax_rate)

\* the rate the claim names: the artifact's, or 0.9 * 0.79685
ClaimedRate ==
    IF "tax_rate" \in DOMAIN artifact.obj THEN artifact.obj.tax_rate
    ELSE Frac(717165, 1000000)

\* C6: in every record of the output table the after-tax yield is the yield
\* times the tax rate where the yield is defined, and undefined exactly where
\* the yield is undefined; the rate is the artifact's when it gives one.
C6_AfterTax ==
    pc = "saved" =>
        \A k \in 1..Len(out) :
            IF IsNaN(out[k].yield) THEN IsNaN(out[k].after)
            ELSE ~IsNaN(out[k].after) /\ out[k].after = Mul(out[k].yield, ClaimedRate)

C6_Witness ==
    /\ pc = "saved"
    /\ "tax_rate" \in DOMAIN artifact.obj
    /\ \E k \in 1..Len(out) : ~IsNaN(out[k].yield)
    /\ \E k \in 1..Len(out) : IsNaN(out[k].yield)

MissingRequired == ({"no"} \cup Range(config.columns_to_convert)) \ table.cols

Reported ==
    IF log # <<>> /\ log[Len(log)].what = "missing_columns"
    THEN Range(log[Len(log)].arg) ELSE {}

\* C7 as stated: once a table lacking a required column (the number column or
\* a configured one) is read, the run goes no further than the column check,
\* returns reporting exactly the missing names and raises nothing; a table
\* with every required column is never given up.
C7_AbortOnMissingColumn ==
    table # NoTable =>
        IF MissingRequired # {}
        THEN /\ pc \in {"read", "returned"}
             /\ pc = "returned" => Reported = MissingRequired
        ELSE pc \notin {"returned", "raised"}

\* C8 as stated: load_config raises nothing; without an object to read it
\* returns the defaults and logs; from an object it returns, for each
\* recognized key, the object's value or else the default, with one warning
\* for each key the object lacks.
C8_LoadConfigTotal ==
    pc # "start" =>
        /\ raised = ""
        /\ pc = "configured"
        /\ IF artifact.kind = "object"
           THEN /\ \A k \in Range(DefaultKeys) :
                    config[k] = IF k \in DOMAIN artifact.obj THEN artifact.obj[k]
                                ELSE default_config[k]
                /\ Len(log) = Cardinality(Range(DefaultKeys) \ DOMAIN artifact.obj)
           ELSE config = default_config /\ Len(log) = 1

\* s with each occurrence of the text key replaced by repl, left to right
RECURSIVE LiteralReplace(_, _, _)
LiteralReplace(s, key, repl) ==
    IF s = <<>> \/ key = <<>> THEN s
    ELSE IF Len(key) <= Len(s) /\ SubSeq(s, 1, Len(key)) = key
         THEN repl \o LiteralReplace(SubSeq(s, Len(key) + 1, Len(s)), key, repl)
         ELSE <<Head(s)>> \o LiteralReplace(Tail(s), key, repl)

RECURSIVE LiteralStrip(_, _, _)
LiteralStrip(symbols, k, s) ==
    IF k > Len(symbols) THEN s
    ELSE LiteralStrip(symbols, k + 1, LiteralReplace(s, symbols[k][1], symbols[k][2]))

\* C9 as stated, for the built-in mapping: every cell of a configured column
\* becomes the number its text reads as once every occurrence of "$" and of
\* the yen sign is removed ("$1.50" becomes 1.50).
C9_LiteralStripping ==
    (pc = "normalized" /\ artifact.kind = "missing") =>
        \A k \in 1..Len(df.rows) :
            \A c \in Range(config.columns_to_convert) \cap df.cols :
                df.rows[k][c] = to_numeric(LiteralStrip(config.currency_symbols, 1,
                                                        table.rows[k][c]))

\* C10 as stated, where the row-by-row function returns: on a table in
\* ascending order it returns the Series the rolling one returns, defined at
\* the same positions and with the same values.
C10_Equivalent ==
    (pc = "v6_saved" /\ IsAscending(df.rows)) =>
        ret = calculate_annual_yield(df.rows)

\* what the row-by-row function gives where the two differ: the sum of the
\* dividends that are numbers among the rows there are, over the prior price
PartialYield(rows, i) ==
    IF ~ValidPrior(rows, i) THEN NaN
    ELSE Mul(Div(SumSkipNa([j \in 1..Len(rows) |-> rows[j].div], Max(1, i - 11), i),
                 rows[i - 1].price), Num(100))

\* C10 amended: on a table in ascending order the row-by-row function raises
\* KeyError exactly when the first record has number >= 12, where the rolling
\* one returns; otherwise the two agree at every position whose number is
\* below 12 or where twelve rows with twelve numeric dividends end, and at
\* any other position the rolling one is undefined while the row-by-row one
\* gives the sum over the rows and numbers there are, over the prior price.
C10_EquivalentOnFullWindows ==
    (pc \in {"v6_saved", "v6_raised"} /\ IsAscending(df.rows)) =>
        LET y11 == calculate_annual_yield(df.rows)
        IN  /\ (pc = "v6_raised") <=> (Len(df.rows) >= 1 /\ df.rows[1].no >= 12)
            /\ pc = "v6_raised" => raised = "KeyError"
            /\ pc = "v6_saved" =>
                /\ Len(ret) = Len(y11)
                /\ \A i \in 1..Len(ret) :
                    IF df.rows[i].no < 12 \/ FullWindow(df.rows, i)
                    THEN ret[i] = y11[i]
                    ELSE IsNaN(y11[i]) /\ ret[i] = PartialYield(df.rows, i)

C10_Witness ==
    /\ pc = "v6_saved"
    /\ IsAscending(df.rows)
    /\ \E i \in 1..Len(ret) :
        /\ df.rows[i].no >= 12
        /\ FullWindow(df.rows, i)
        /\ ~IsNaN(ret[i])
        /\ ret[i] = calculate_annual_yield(df.rows)[i]
    /\ \E i \in 1..Len(ret) : ~IsNaN(ret[i]) /\ IsNaN(calculate_annual_yield(df.rows)[i])

====
